---------------------------- MODULE Spec2Model ----------------------------
(***************************************************************************)
(* ESP_EEPROM: EEPROM emulation on one flash sector (src/src/ESP_EEPROM.cpp *)
(* and src/src/ESP_EEPROM.h).  The sector holds a 4-byte size header, a     *)
(* bitmap of _bitmapSize bytes and consecutive copies ("slots") of the      *)
(* buffer, each _size bytes.  The model keeps the sector byte for byte and  *)
(* every public operation of EEPROMClass is one action.  A C array of n    *)
(* bytes is a sequence of length n: a[i] of the code is At(a, i).          *)
(*                                                                          *)
(* SPI_FLASH_SEC_SIZE is a constant of the SDK the library is built        *)
(* against, not of this repository: it is fixed by Init and never changes. *)
(* The specifications that run sequences of operations take a small sector *)
(* (SmallSector bytes); SpecScan, which applies begin() to sectors laid out *)
(* by hand, takes the 4096 bytes of the ESP8266.                           *)
(*                                                                          *)
(* The flash primitives (spi_flash_erase_sector, spi_flash_read,            *)
(* spi_flash_write) belong to the SDK: a successful erase sets every byte   *)
(* of the sector to the erased value, a successful write stores the bytes   *)
(* given, a successful read returns the bytes stored; a failed operation    *)
(* changes neither the sector nor the destination buffer.                   *)
(***************************************************************************)
EXTENDS Integers, Sequences, FiniteSets, TLC

\* ------------------------------------------------------------------ bounds

\* Values the caller writes into the buffer are 1..MaxVal.
MaxVal == 2
\* At most MaxFaults flash operations fail in one run of the machine.
MaxFaults == 1

\* The bytes of the sector in the specifications that run sequences of
\* operations.
SmallSector == 40

\* --------------------------------------------------------------- constants

\* The flash sector size of the ESP8266 SDK ("Normally the sector size is
\* 4096 bytes").
EspSector == 4096
EEPROM_MIN_SIZE == 16
\* uint16_t arithmetic of _offset and of offsetFromBitmap's local offset.
UINT16_MOD == 65536

\* The value of a pointer that holds no allocation (the constructor's 0).
NULL == << >>

\* ------------------------------------------------------------------ state

VARIABLES
    _data,        \* the buffer, NULL when not allocated
    _size,        \* the slot size in force, 0 when not configured
    _bitmapSize,
    _bitmap,      \* the copy of the bitmap in memory, NULL when not allocated
    _offset,      \* the offset in the sector of the current slot, 0: none
    _dirty,
    sector,       \* the bytes of the flash sector
    erased,       \* the value a byte of this flash reads as after an erase
    SPI_FLASH_SEC_SIZE,  \* the bytes of a sector of this flash
    lastOp,       \* the public operation that ran last
    arg,          \* its arguments
    returned,        \* what it returned
    readValue,      \* the byte the last read() returned
    calls,        \* the SDK calls it made, in order
    faults,       \* the flash operations that have failed so far
    changed,      \* a write() has changed the buffer since the last commit
    recent,       \* the latest successive commits that each followed a change
    again         \* the last operation was commit() right after a commit()
                  \* that returned true

vars == << _data, _size, _bitmapSize, _bitmap, _offset, _dirty, sector, erased,
           SPI_FLASH_SEC_SIZE,
           lastOp, arg, returned, readValue, calls, faults, changed, recent,
           again >>

\* ------------------------------------------------------------ bit helpers

\* (b >> i) & 1 for a byte b.
Bit(b, i) == (b \div (2 ^ i)) % 2

\* b | (1 << i)
SetBit(b, i) == IF Bit(b, i) = 1 THEN b ELSE b + 2 ^ i

\* b & ~(1 << i)
ClearBit(b, i) == IF Bit(b, i) = 1 THEN b - 2 ^ i ELSE b

\* a[i] of a C array kept as a sequence.
At(a, i) == a[i + 1]

\* x & ~3
AlignDown4(x) == x - (x % 4)

\* ----------------------------------------------------- flash primitives

\* spi_flash_erase_sector: the whole sector reads as the erased value e.
EraseSector(e) == [i \in 1 .. SPI_FLASH_SEC_SIZE |-> e]

\* spi_flash_write(addr, buf, n): n bytes of buf (from index from) at addr.
FlashWrite(fl, addr, buf, from, n) ==
    SubSeq(fl, 1, addr) \o SubSeq(buf, from + 1, from + n)
                       \o SubSeq(fl, addr + n + 1, Len(fl))

\* spi_flash_read(addr, buf, n): the n bytes at addr.
FlashRead(fl, addr, n) == SubSeq(fl, addr + 1, addr + n)

\* The bytes of a uint32_t in memory (little endian), as spi_flash_write
\* sees &_size.
WordBytes(w) ==
    << w % 256, (w \div 256) % 256, (w \div 65536) % 256, (w \div 16777216) % 256 >>

\* new uint8_t[n]: n bytes of indeterminate value; here the first is g and
\* the others are 0.
NewBytes(n, g) == [i \in 1 .. n |-> IF i = 1 THEN g ELSE 0]

\* ------------------------------------------------------ layout calculator

\* A computeBitmapSize that leaves the reference bit out of the count.
computeBitmapSize_NoReferenceBit(size) ==
    LET nCopies == ((SPI_FLASH_SEC_SIZE - 4) * 8 - 1) \div (size * 8 + 1)
        bitmapSize == AlignDown4((nCopies + 31) \div 8)
    IN  bitmapSize % 32768

\* EEPROMClass::computeBitmapSize
computeBitmapSize(size) ==
    LET nCopies == ((SPI_FLASH_SEC_SIZE - 4) * 8 - 1) \div (size * 8 + 1)
        bitmapSize == AlignDown4(((nCopies + 1) + 31) \div 8)
    IN  bitmapSize % 32768

\* The number of slots the sector holds for slot size s and bitmap size m.
nSlots(s, m) == (SPI_FLASH_SEC_SIZE - 4 - m) \div s

\* ------------------------------------------------------- recovery scanner

\* The inner loop of offsetFromBitmap over the bits of one byte, from bit b
\* (bmBit = 1 << b): found when a bit in the 'after flash' state is met,
\* offset as the loop leaves it (a uint16_t).
RECURSIVE scanBits(_, _, _, _, _)
scanBits(byte, flash, b, size, offset) ==
    IF b > 7
    THEN [found |-> FALSE, offset |-> offset]
    ELSE IF Bit(byte, b) = flash
         THEN [found |-> TRUE, offset |-> offset]
         ELSE scanBits(byte, flash, b + 1, size, (offset + size) % UINT16_MOD)

\* The outer loop of offsetFromBitmap over bmByte; in byte 0 the inner loop
\* starts at bit first.
RECURSIVE scanBitmap(_, _, _, _, _, _, _)
scanBitmap(bitmap, bitmapSize, size, flash, first, bmByte, offset) ==
    IF bmByte >= bitmapSize
    THEN offset
    ELSE LET r == scanBits(At(bitmap, bmByte), flash,
                           IF bmByte = 0 THEN first ELSE 0, size, offset)
         IN  IF r.found
             THEN r.offset
             ELSE scanBitmap(bitmap, bitmapSize, size, flash, first,
                             bmByte + 1, r.offset)

\* An offsetFromBitmap whose scan starts at bit 1 (bmBit = 2), not at bit 2.
offsetFromBitmap_SkipsNoBit(bitmap, bitmapSize, size) ==
    IF bitmap = NULL \/ bitmapSize <= 0
    THEN 0
    ELSE LET flash == Bit(At(bitmap, 0), 0)
         IN  IF Bit(At(bitmap, 0), 1) = flash
             THEN 0
             ELSE scanBitmap(bitmap, bitmapSize, size, flash, 1, 0,
                             (4 + bitmapSize) % UINT16_MOD)

\* EEPROMClass::offsetFromBitmap: the scan starts at bit 2 of byte 0
\* (bmBit = 4); flash is the 'after flash' state.
offsetFromBitmap(bitmap, bitmapSize, size) ==
    IF bitmap = NULL \/ bitmapSize <= 0
    THEN 0
    ELSE LET flash == Bit(At(bitmap, 0), 0)
         IN  IF Bit(At(bitmap, 0), 1) = flash
             THEN 0
             ELSE scanBitmap(bitmap, bitmapSize, size, flash, 2, 0,
                             (4 + bitmapSize) % UINT16_MOD)

\* ------------------------------------------------------------- the store

\* What an operation hands back: the store after it (the fields of
\* EEPROMClass and the sector, field fl), the value returned ("true" or
\* "false" of a bool function, "void" of a void one) and the calls made on
\* the SDK, in order.
Result(s, ret, trace) == [s |-> s, ret |-> ret, trace |-> trace]

\* A flash operation whose failure return leaves interrupts suspended.
Io_NoReleaseOnFailure(op, ok) ==
    IF ok
    THEN << <<"noInterrupts", TRUE>>, <<op, ok>>, <<"interrupts", TRUE>> >>
    ELSE << <<"noInterrupts", TRUE>>, <<op, ok>> >>

\* noInterrupts(); <one flash operation>; interrupts();
Io(op, ok) == << <<"noInterrupts", TRUE>>, <<op, ok>>, <<"interrupts", TRUE>> >>

\* EEPROMClass::EEPROMClass: the fields after construction.
Constructed(fl) ==
    [data |-> NULL, size |-> 0, bitmapSize |-> 0, bitmap |-> NULL,
     offset |-> 0, dirty |-> FALSE, fl |-> fl]

\* A begin that takes whatever offset the scan hands back.
begin_NoSlotCheck(s, size, f, gb, gd) ==
    IF size <= 0 \/ size > SPI_FLASH_SEC_SIZE - 8
    THEN Result([s EXCEPT !.dirty = TRUE], "void", << >>)
    ELSE
    LET sz == AlignDown4((IF size < EEPROM_MIN_SIZE THEN EEPROM_MIN_SIZE ELSE size) + 3)
        bms == computeBitmapSize(sz)
        hdr == IF "rdsize" \in f THEN WordBytes(s.size) ELSE FlashRead(s.fl, 0, 4)
        s0 == [s EXCEPT !.dirty = TRUE, !.bitmapSize = bms, !.size = sz,
                        !.bitmap = NewBytes(bms, gb), !.data = NewBytes(sz, gd)]
        t0 == Io("read", "rdsize" \notin f)
    IN  IF hdr # WordBytes(sz)
        THEN Result([s0 EXCEPT !.offset = 0], "void", t0)
        ELSE
        LET bm == IF "rdbitmap" \in f THEN s0.bitmap ELSE FlashRead(s.fl, 4, bms)
            off == offsetFromBitmap(bm, bms, sz)
            t1 == t0 \o Io("read", "rdbitmap" \notin f)
        IN  Result([s0 EXCEPT !.bitmap = bm, !.offset = off,
                              !.data = IF "rddata" \in f \/ off + sz > SPI_FLASH_SEC_SIZE
                                       THEN s0.data
                                       ELSE FlashRead(s.fl, off, sz),
                              !.dirty = FALSE],
                   "void", t1 \o Io("read", "rddata" \notin f))

\* EEPROMClass::begin.  f: the flash operations that fail; gb, gd: the
\* indeterminate contents of the two fresh allocations.
begin(s, size, f, gb, gd) ==
    IF size <= 0 \/ size > SPI_FLASH_SEC_SIZE - 8
    THEN Result([s EXCEPT !.dirty = TRUE], "void", << >>)
    ELSE
    LET sz == AlignDown4((IF size < EEPROM_MIN_SIZE THEN EEPROM_MIN_SIZE ELSE size) + 3)
        bms == computeBitmapSize(sz)
        \* spi_flash_read into &_size, kept as its 4 bytes: a failed read leaves
        \* _size as it was
        hdr == IF "rdsize" \in f THEN WordBytes(s.size) ELSE FlashRead(s.fl, 0, 4)
        s0 == [s EXCEPT !.dirty = TRUE, !.bitmapSize = bms, !.size = sz,
                        !.bitmap = NewBytes(bms, gb), !.data = NewBytes(sz, gd)]
        t0 == Io("read", "rdsize" \notin f)
    IN  IF hdr # WordBytes(sz)
        THEN Result([s0 EXCEPT !.offset = 0], "void", t0)
        ELSE
        LET bm == IF "rdbitmap" \in f THEN s0.bitmap ELSE FlashRead(s.fl, 4, bms)
            off == offsetFromBitmap(bm, bms, sz)
            t1 == t0 \o Io("read", "rdbitmap" \notin f)
        IN  IF off = 0 \/ off + sz > SPI_FLASH_SEC_SIZE
            THEN Result([s0 EXCEPT !.bitmap = bm, !.offset = 0], "void", t1)
            ELSE Result([s0 EXCEPT !.bitmap = bm, !.offset = off,
                                   !.data = IF "rddata" \in f THEN s0.data
                                            ELSE FlashRead(s.fl, off, sz),
                                   !.dirty = FALSE],
                        "void", t1 \o Io("read", "rddata" \notin f))

\* EEPROMClass::percentUsed
percentUsed(s) ==
    IF s.offset = 0 \/ s.size = 0
    THEN -1
    ELSE LET nCopies == (SPI_FLASH_SEC_SIZE - 4 - s.bitmapSize) \div s.size
             copyNo == 1 + (s.offset - 4 - s.bitmapSize) \div s.size
         IN  (100 * copyNo) \div nCopies

\* EEPROMClass::read
read(s, address) ==
    IF address < 0 \/ address >= s.size THEN 0
    ELSE IF s.data = NULL THEN 0
    ELSE At(s.data, address)

\* A write that tests the address against 0 only and takes the store for
\* changed when the address is past the buffer.
write_NoUpperBound(s, address, value) ==
    IF address < 0 THEN s
    ELSE IF s.data = NULL THEN s
    ELSE IF address >= s.size THEN [s EXCEPT !.dirty = TRUE]
    ELSE IF At(s.data, address) # value
         THEN [s EXCEPT !.data[address + 1] = value, !.dirty = TRUE]
         ELSE s

\* EEPROMClass::write
write(s, address, value) ==
    IF address < 0 \/ address >= s.size THEN s
    ELSE IF s.data = NULL THEN s
    ELSE IF At(s.data, address) # value
         THEN [s EXCEPT !.data[address + 1] = value, !.dirty = TRUE]
         ELSE s

\* A put that copies and flags the store without comparing.
put_NoCompare(s, address, v) ==
    IF s.data # NULL /\ address >= 0 /\ address + Len(v) <= s.size
    THEN [s EXCEPT !.dirty = TRUE,
                   !.data = [i \in 1 .. s.size |->
                                IF i > address /\ i <= address + Len(v)
                                THEN v[i - address] ELSE s.data[i]]]
    ELSE s

\* EEPROMClass::put<T>, v the sizeof(T) bytes of the variable
put(s, address, v) ==
    IF s.data # NULL /\ address >= 0 /\ address + Len(v) <= s.size
    THEN IF s.dirty \/ SubSeq(s.data, address + 1, address + Len(v)) # v
         THEN [s EXCEPT !.dirty = TRUE,
                        !.data = [i \in 1 .. s.size |->
                                     IF i > address /\ i <= address + Len(v)
                                     THEN v[i - address] ELSE s.data[i]]]
         ELSE s
    ELSE s

\* The bit of the bitmap that stands for the slot at _offset
\* (bitNo of flagUsedOffset).
flagBitNo(s) == 1 + (s.offset - 4 - s.bitmapSize) \div s.size

\* A flagUsedOffset that flips no bit.
flagUsedOffset_NoFlip(s) == s.bitmap

\* EEPROMClass::flagUsedOffset: the bitmap with the bit of the slot at
\* _offset flipped away from the erased value; the byte changed is
\* flagBitNo(s) >> 3.
flagUsedOffset(s) ==
    LET bitNo == flagBitNo(s)
        byteNo == bitNo \div 8
    IN  IF Bit(At(s.bitmap, 0), 0) = 1
        THEN [s.bitmap EXCEPT ![byteNo + 1] = ClearBit(@, bitNo % 8)]
        ELSE [s.bitmap EXCEPT ![byteNo + 1] = SetBit(@, bitNo % 8)]

\* The erase-and-restart branch of commit once the erase and the write of
\* the size header have succeeded: the first 4 bytes of the bitmap are read
\* back, the rest of _bitmap is set to _bitmap[0], _offset is the first slot.
commitRestart(s, f, e) ==
    LET fl == FlashWrite(EraseSector(e), 0, WordBytes(s.size), 0, 4)
        head == IF "rdbitmap" \in f THEN s.bitmap ELSE FlashRead(fl, 4, 4)
    IN  [s EXCEPT !.fl = fl,
                  !.bitmap = [i \in 1 .. s.bitmapSize |->
                                 IF i <= 4 THEN head[i] ELSE At(head, 0)],
                  !.offset = 4 + s.bitmapSize]

\* The calls commitRestart stands for.
restartTrace(f) ==
    Io("erase", TRUE) \o Io("write", TRUE) \o Io("read", "rdbitmap" \notin f)

\* A commit that erases every time.
sectorFull_Always(s) == TRUE

\* A commit that appends while the current slot, not the next, fits.
sectorFull_NoRoomNeeded(s) ==
    s.offset = 0 \/ s.offset + s.size > SPI_FLASH_SEC_SIZE

\* The test of commit for the erase-and-restart branch: no current slot, or
\* no room for another slot behind it.
sectorFull(s) ==
    s.offset = 0 \/ s.offset + s.size + s.size > SPI_FLASH_SEC_SIZE

\* EEPROMClass::commit past its two early returns: the buffer is written to
\* the next slot.  f: the flash operations that fail; e: the value an erased
\* byte reads as.
commitDirty(s, f, e) ==
    LET oldOffset == s.offset
        full == sectorFull(s)
    IN  IF full /\ "erase" \in f
        THEN Result(s, "false", Io("erase", FALSE))
        ELSE IF full /\ "wrsize" \in f
        THEN Result([s EXCEPT !.fl = EraseSector(e)], "false",
                    Io("erase", TRUE) \o Io("write", FALSE))
        ELSE
        LET s1 == IF full THEN commitRestart(s, f, e)
                  ELSE [s EXCEPT !.offset = (s.offset + s.size) % UINT16_MOD]
            t1 == IF full THEN restartTrace(f) ELSE << >>
        IN  IF "wrdata" \in f
            THEN Result([s1 EXCEPT !.offset = oldOffset], "false",
                        t1 \o Io("write", FALSE))
            ELSE
            LET s2 == [s1 EXCEPT !.fl = FlashWrite(s1.fl, s1.offset, s1.data, 0, s1.size),
                                 !.bitmap = flagUsedOffset(s1)]
                bitmapByteUpdated == AlignDown4(flagBitNo(s1) \div 8)
                t2 == t1 \o Io("write", TRUE)
            IN  IF "wrbitmap" \in f
                THEN Result(s2, "false", t2 \o Io("write", FALSE))
                ELSE Result([s2 EXCEPT !.fl = FlashWrite(s2.fl, 4 + bitmapByteUpdated,
                                                         s2.bitmap, bitmapByteUpdated, 4),
                                       !.dirty = FALSE],
                            "true",
                            t2 \o Io("write", TRUE) \o << <<"interrupts", TRUE>> >>)

\* A commit that writes the buffer whether it is dirty or not.
commit_NoDirtyCheck(s, f, e) ==
    IF s.size = 0 \/ s.data = NULL \/ s.bitmap = NULL \/ s.bitmapSize = 0
    THEN Result(s, "false", << >>)
    ELSE commitDirty(s, f, e)

\* EEPROMClass::commit.  f: the flash operations that fail; e: the value an
\* erased byte reads as.
commit(s, f, e) ==
    IF s.size = 0 \/ s.data = NULL \/ s.bitmap = NULL \/ s.bitmapSize = 0
    THEN Result(s, "false", << >>)
    ELSE IF ~s.dirty
    THEN Result(s, "true", << >>)
    ELSE commitDirty(s, f, e)

\* A commitReset that leaves _offset as its commit left it.
commitReset_NoRestore(s, f, e) ==
    commit([s EXCEPT !.offset = SPI_FLASH_SEC_SIZE, !.dirty = TRUE], f, e)

\* EEPROMClass::commitReset
commitReset(s, f, e) ==
    LET oldOffset == s.offset
        r == commit([s EXCEPT !.offset = SPI_FLASH_SEC_SIZE, !.dirty = TRUE], f, e)
    IN  IF r.ret = "true"
        THEN Result(r.s, "true", r.trace)
        ELSE Result([r.s EXCEPT !.offset = oldOffset], "false", r.trace)

\* A wipe that leaves the erase to the next commit.
wipe_Deferred(s, f, e, gb, gd) ==
    IF s.size = 0 \/ s.bitmapSize = 0
    THEN Result(s, "false", << >>)
    ELSE Result([s EXCEPT !.bitmap = NewBytes(s.bitmapSize, gb),
                          !.data = NewBytes(s.size, gd),
                          !.dirty = TRUE,
                          !.offset = 0],
                IF "erase" \in f THEN "false" ELSE "true",
                Io("erase", "erase" \notin f))

\* EEPROMClass::wipe.  gb, gd: the contents of the two fresh allocations.
wipe(s, f, e, gb, gd) ==
    IF s.size = 0 \/ s.bitmapSize = 0
    THEN Result(s, "false", << >>)
    ELSE Result([s EXCEPT !.bitmap = NewBytes(s.bitmapSize, gb),
                          !.data = NewBytes(s.size, gd),
                          !.fl = IF "erase" \in f THEN s.fl ELSE EraseSector(e),
                          !.dirty = TRUE,
                          !.offset = 0],
                IF "erase" \in f THEN "false" ELSE "true",
                Io("erase", "erase" \notin f))

\* EEPROMClass::end
end(s, f, e) ==
    IF s.size = 0
    THEN Result(s, "void", << >>)
    ELSE LET r == commit(s, f, e)
         IN  Result([r.s EXCEPT !.bitmap = NULL, !.bitmapSize = 0, !.data = NULL,
                                !.size = 0, !.dirty = FALSE],
                    "void", r.trace)

\* ------------------------------------------------------------ the machine

\* The store as the operators above take it.
This ==
    [data |-> _data, size |-> _size, bitmapSize |-> _bitmapSize,
     bitmap |-> _bitmap, offset |-> _offset, dirty |-> _dirty, fl |-> sector]

\* The sizes the caller asks begin() for: rejected (0 and above the sector
\* size less 8), one that begin() raises to EEPROM_MIN_SIZE (2 slots in a
\* sector of SmallSector bytes) and one that it aligns to 32 (1 slot).
BeginSizes == {0, EEPROM_MIN_SIZE - 2, 2 * EEPROM_MIN_SIZE - 2, SPI_FLASH_SEC_SIZE - 7}

\* The indeterminate first byte of the allocations an operation makes.
Garbage == {0, 165}

\* The erased value of the flash: all ones or all zeroes.
ErasedValues == {255, 0}

BeginSteps == {"rdsize", "rdbitmap", "rddata"}
CommitSteps == {"erase", "wrsize", "rdbitmap", "wrdata", "wrbitmap"}
WipeSteps == {"erase"}

\* The sets of flash operations that may fail in the next public
\* operation: together with the earlier failures at most MaxFaults.
Faults(steps) == {f \in SUBSET steps : Cardinality(f) <= MaxFaults - faults}

\* The number of failed calls in a trace.
RECURSIVE failedIn(_)
failedIn(tr) ==
    IF tr = << >> THEN 0
    ELSE (IF Head(tr)[2] THEN 0 ELSE 1) + failedIn(Tail(tr))

\* The first byte of slot j in a sector laid out by hand; its other bytes
\* are 0.
slotFill(j) == 1 + (j % MaxVal)

\* Bit p of a bitmap over erased value e with bits 1..k flipped.
bitWith(e, k, p) == IF p >= 1 /\ p <= k THEN 1 - (e % 2) ELSE e % 2

\* A bitmap of m bytes over erased value e with bits 1..k flipped.
bitmapWith(e, m, k) ==
    [i \in 1 .. m |->
        LET lo == 8 * (i - 1)
        IN  bitWith(e, k, lo) + 2 * bitWith(e, k, lo + 1)
            + 4 * bitWith(e, k, lo + 2) + 8 * bitWith(e, k, lo + 3)
            + 16 * bitWith(e, k, lo + 4) + 32 * bitWith(e, k, lo + 5)
            + 64 * bitWith(e, k, lo + 6) + 128 * bitWith(e, k, lo + 7)]

\* A sector laid out for slot size s: the header, bits 1..k of the bitmap
\* flipped, slot j written (first byte slotFill(j), then zeroes) for
\* j < min(k, number of slots), every other byte erased.
laidOut(e, s, k) ==
    LET m == computeBitmapSize(s)
        bm == bitmapWith(e, m, k)
        hdr == WordBytes(s)
        n == IF k < nSlots(s, m) THEN k ELSE nSlots(s, m)
    IN  [a \in 1 .. SPI_FLASH_SEC_SIZE |->
            LET i == a - 1
            IN  IF i < 4 THEN At(hdr, i)
                ELSE IF i < 4 + m THEN At(bm, i - 4)
                ELSE IF i < 4 + m + n * s
                     THEN IF (i - 4 - m) % s = 0 THEN slotFill((i - 4 - m) \div s) ELSE 0
                ELSE e]

\* The slot sizes of the sectors the machine may find at start.
InitSizes == {EEPROM_MIN_SIZE, 2 * EEPROM_MIN_SIZE}

\* The store just constructed, over a sector of SmallSector bytes that is
\* erased or holds the header and 0 to all of its slots written; f0 flash
\* operations count as failed already.
Start(f0) ==
    /\ SPI_FLASH_SEC_SIZE = SmallSector
    /\ erased \in ErasedValues
    /\ sector \in {EraseSector(erased)}
                  \cup UNION {{laidOut(erased, s, k) :
                                 k \in 0 .. nSlots(s, computeBitmapSize(s))} :
                              s \in InitSizes}
    /\ _data = NULL /\ _size = 0 /\ _bitmapSize = 0 /\ _bitmap = NULL
    /\ _offset = 0 /\ _dirty = FALSE
    /\ lastOp = "new" /\ arg = << >> /\ returned = "void" /\ readValue = 0
    /\ calls = << >> /\ faults = f0 /\ changed = FALSE /\ recent = << >>
    /\ again = FALSE

Init == Start(0)

\* No flash operation can fail: the failures allowed are used up.
InitNoFault == Start(MaxFaults)

\* The variables after an operation that handed back r.
Apply(r, op, a) ==
    /\ _data' = r.s.data /\ _size' = r.s.size /\ _bitmapSize' = r.s.bitmapSize
    /\ _bitmap' = r.s.bitmap /\ _offset' = r.s.offset /\ _dirty' = r.s.dirty
    /\ sector' = r.s.fl /\ erased' = erased
    /\ SPI_FLASH_SEC_SIZE' = SPI_FLASH_SEC_SIZE
    /\ lastOp' = op /\ arg' = a /\ returned' = r.ret /\ calls' = r.trace
    /\ faults' = faults + failedIn(r.trace)
    /\ again' = (op = "commit" /\ lastOp = "commit" /\ returned = "true")

\* The number of erases among the calls of a trace.
RECURSIVE erasesIn(_)
erasesIn(tr) ==
    IF tr = << >> THEN 0
    ELSE (IF Head(tr) = <<"erase", TRUE>> THEN 1 ELSE 0) + erasesIn(Tail(tr))

\* The last n entries of a sequence.
lastN(q, n) == IF Len(q) <= n THEN q ELSE SubSeq(q, Len(q) - n + 1, Len(q))

\* begin(size), size one of sizes, flash operations among steps failing
BeginFailing(sizes, steps) ==
    \E size \in sizes, f \in Faults(steps), g \in Garbage :
        LET r == begin(This, size, f, g, g)
        IN  /\ Apply(r, "begin", <<size>>)
            /\ readValue' = 0
            /\ changed' = (changed /\ r.trace = << >>)
            /\ recent' = << >>

\* begin(size), size one of sizes
BeginWith(sizes) == BeginFailing(sizes, BeginSteps)

Begin == BeginWith(BeginSizes)

\* read(address), inside the buffer and on both sides of it
Read ==
    \E address \in {-1, 0, _size} :
        /\ Apply(Result(This, "void", << >>), "read", <<address>>)
        /\ readValue' = read(This, address)
        /\ UNCHANGED << changed, recent >>

\* write(address, v) at one of addresses
WriteAt(addresses) ==
    \E address \in addresses, v \in 1 .. MaxVal :
        LET s == write(This, address, v)
        IN  /\ Apply(Result(s, "void", << >>), "write", <<address, v>>)
            /\ readValue' = 0
            /\ changed' = (changed \/ s.data # _data)
            /\ recent' = recent

\* write(0, v)
Write == WriteAt({0})

\* write(address, v) on both sides of the buffer
WriteOutside == WriteAt({-1, _size})

\* The variables put() is called with: two bytes.
PutValues == {<<v, w>> : v \in 1 .. MaxVal, w \in {0, MaxVal}}

\* put(address, v) for a variable of two bytes, inside the buffer, across
\* its end and before its start
Put ==
    \E address \in {-1, 0, _size - 1}, v \in PutValues :
        LET s == put(This, address, v)
        IN  /\ Apply(Result(s, "void", << >>), "put", <<address, v>>)
            /\ readValue' = 0
            /\ changed' = (changed \/ s.data # _data)
            /\ recent' = recent

\* commit()
CommitFailing(steps) ==
    \E f \in Faults(steps) :
        LET r == commit(This, f, erased)
        IN  /\ Apply(r, "commit", << >>)
            /\ readValue' = 0
            /\ changed' = (changed /\ r.ret # "true")
            /\ recent' = IF r.ret = "true" /\ changed
                         THEN Append(lastN(recent, nSlots(_size, _bitmapSize)),
                                     [erases |-> erasesIn(r.trace), before |-> _offset])
                         ELSE << >>

Commit == CommitFailing(CommitSteps)

\* commitReset(), flash operations among steps failing
CommitResetFailing(steps) ==
    \E f \in Faults(steps) :
        LET r == commitReset(This, f, erased)
        IN  /\ Apply(r, "commitReset", << >>)
            /\ readValue' = 0
            /\ changed' = (changed /\ r.ret # "true")
            /\ recent' = << >>

\* commitReset()
CommitReset == CommitResetFailing(CommitSteps)

\* wipe()
Wipe ==
    \E f \in Faults(WipeSteps), g \in Garbage :
        LET r == wipe(This, f, erased, g, g)
        IN  /\ Apply(r, "wipe", << >>)
            /\ readValue' = 0
            /\ changed' = (changed /\ r.trace = << >>)
            /\ recent' = << >>

\* end()
End ==
    \E f \in Faults(CommitSteps) :
        LET r == end(This, f, erased)
        IN  /\ Apply(r, "end", << >>)
            /\ readValue' = 0
            /\ changed' = FALSE
            /\ recent' = << >>

\* A restart of the program: the store is constructed anew, the sector
\* keeps its bytes.
Restart ==
    /\ Apply(Result(Constructed(sector), "void", << >>), "new", << >>)
    /\ readValue' = 0
    /\ changed' = FALSE
    /\ recent' = << >>

Next ==
    \/ Begin
    \/ Write
    \/ Commit
    \/ CommitReset
    \/ Wipe
    \/ End
    \/ Restart

\* The operations that change the store or the sector, in any order, on a
\* sector of SmallSector bytes; flash operations fail at will, at most
\* MaxFaults of them in a run.
Spec == Init /\ [][Next]_vars

\* The same with no flash operation ever failing.
SpecNoFault == InitNoFault /\ [][Next]_vars

NextAccess ==
    \/ Begin
    \/ Read
    \/ Write
    \/ WriteOutside
    \/ Commit
    \/ Wipe

\* The accesses to the buffer, in range and out of range, of a store that
\* begin() configures, commit() saves and wipe() clears; no flash operation
\* fails.
SpecAccess == InitNoFault /\ [][NextAccess]_vars

\* The flash operations of commit() that change the sector.
WriteSteps == {"erase", "wrsize", "wrdata", "wrbitmap"}

\* begin(size), every read succeeding
BeginReading == BeginFailing(BeginSizes, {})

\* commit(), erases and writes failing
CommitWriting == CommitFailing(WriteSteps)

\* commitReset(), erases and writes failing
CommitResetWriting == CommitResetFailing(WriteSteps)

NextWriteFaults ==
    \/ BeginReading
    \/ Write
    \/ CommitWriting
    \/ CommitResetWriting
    \/ Wipe

\* begin(), write(), commit(), commitReset() and wipe() in any order, with
\* erases and writes of the flash failing, at most MaxFaults of them in a
\* run, and every read of the flash succeeding.
SpecWriteFaults == Init /\ [][NextWriteFaults]_vars

NextPut ==
    \/ Begin
    \/ Write
    \/ Put
    \/ Commit

\* The changes to the buffer by write() and put() between begin() and
\* commit(); no flash operation fails.
SpecPut == InitNoFault /\ [][NextPut]_vars

\* -------------------------------------------------- sectors laid out by hand

\* The slot sizes of the sectors SpecScan lays out: the smallest (a bitmap
\* of 32 bytes), one whose bitmap (16 bytes) has exactly one bit per slot
\* and the reference bit, one whose bitmap (16 bytes) has more bits than
\* that, one of 3 slots, one for which the scan of a full bitmap wraps the
\* uint16_t offset back into the sector, and the largest.
ScanSizes == {EEPROM_MIN_SIZE, 32, 40, 1024, 2188, EspSector - 8}

\* The sizes begin() is asked for on a sector laid out for slot size s: s
\* itself, one that begin() aligns to s, and one that it aligns to s - 4
\* (or, below EEPROM_MIN_SIZE, raises to s as well).
scanRequests(s) == {s, s - 3, s - 4}

InitScan ==
    /\ SPI_FLASH_SEC_SIZE = EspSector
    /\ erased \in ErasedValues
    /\ sector \in UNION {{laidOut(erased, s, k) :
                            k \in 0 .. 8 * computeBitmapSize(s) - 1} :
                         s \in ScanSizes}
    /\ _data = NULL /\ _size = 0 /\ _bitmapSize = 0 /\ _bitmap = NULL
    /\ _offset = 0 /\ _dirty = FALSE
    /\ lastOp = "new" /\ arg = << >> /\ returned = "void" /\ readValue = 0
    /\ calls = << >> /\ faults = MaxFaults /\ changed = FALSE /\ recent = << >>
    /\ again = FALSE

\* The slot size in the header of a sector laid out by hand.
headerSize(fl) == CHOOSE s \in ScanSizes : WordBytes(s) = FlashRead(fl, 0, 4)

\* begin(size) on a store just constructed
BeginScan ==
    /\ lastOp = "new"
    /\ BeginWith(scanRequests(headerSize(sector)))

NextScan == BeginScan

\* begin() on a store just constructed over a sector of the ESP8266's 4096
\* bytes laid out by hand: every count of flipped bitmap bits, either erased
\* value; no flash operation fails.
SpecScan == InitScan /\ [][NextScan]_vars

\* ------------------------------------------------------- every slot size

\* The slot sizes begin() can end with on the ESP8266: the multiples of 4
\* from EEPROM_MIN_SIZE to the sector size less 8.
ValidSizes == {4 * i : i \in EEPROM_MIN_SIZE \div 4 .. (EspSector - 8) \div 4}

InitSize ==
    /\ SPI_FLASH_SEC_SIZE = EspSector
    /\ erased \in ErasedValues
    /\ sector = EraseSector(erased)
    /\ _data = NULL /\ _size = 0 /\ _bitmapSize = 0 /\ _bitmap = NULL
    /\ _offset = 0 /\ _dirty = FALSE
    /\ lastOp = "new" /\ arg = << >> /\ returned = "void" /\ readValue = 0
    /\ calls = << >> /\ faults = MaxFaults /\ changed = FALSE /\ recent = << >>
    /\ again = FALSE

\* begin(size) on a store just constructed, size any valid slot size
BeginSize ==
    /\ lastOp = "new"
    /\ BeginWith(ValidSizes)

NextSize == BeginSize

\* begin() on a store just constructed over an erased sector of the
\* ESP8266's 4096 bytes, for every valid slot size: the layout that
\* computeBitmapSize gives each of them.
SpecSize == InitSize /\ [][NextSize]_vars

\* ------------------------------------------------------------ the claims

\* The store that begin(size) leaves on an instance just constructed over
\* the sector fl, no flash operation failing: a restart of the program.
restarted(fl, size) == begin(Constructed(fl), size, {}, 0, 0).s

\* The buffer a restart recovers from the sector fl: NULL when begin finds
\* no slot.
recovered(fl, size) ==
    LET r == restarted(fl, size)
    IN  IF r.offset = 0 THEN NULL ELSE r.data

\* The store after end() and then begin(size), no flash operation failing.
reopened(s, size, e) == begin(end(s, {}, e).s, size, {}, 0, 0).s

\* A trace holds the call c.
made(tr, c) == \E i \in 1 .. Len(tr) : tr[i] = c

\* A commit whose trace is tr wrote the data slot and then failed to write
\* the bitmap chunk.
bitmapWriteFailed(tr) ==
    /\ Len(tr) >= 6
    /\ SubSeq(tr, Len(tr) - 5, Len(tr)) = Io("write", TRUE) \o Io("write", FALSE)

\* The erases of all the commits of a window.
RECURSIVE erasesOf(_)
erasesOf(q) == IF q = << >> THEN 0 ELSE Head(q).erases + erasesOf(Tail(q))

\* C1: with no flash operation failing, once commit() has returned true a
\* restart - begin(_size) on a fresh instance over the same sector, or end()
\* followed by begin(_size) - finds a slot and loads a buffer equal, byte
\* for byte, to the buffer the commit left, and the store is clean.
C1_DurabilityRoundTrip ==
    (lastOp = "commit" /\ returned = "true") =>
        /\ restarted(sector, _size).offset # 0
        /\ restarted(sector, _size).data = _data
        /\ ~restarted(sector, _size).dirty
        /\ reopened(This, _size, erased).offset # 0
        /\ reopened(This, _size, erased).data = _data
        /\ ~reopened(This, _size, erased).dirty

\* A commit has just written the buffer, holding MaxVal at address 0, to a
\* slot appended behind another.
C1_Witness ==
    /\ lastOp = "commit" /\ returned = "true"
    /\ made(calls, <<"write", TRUE>>) /\ ~made(calls, <<"erase", TRUE>>)
    /\ At(_data, 0) = MaxVal
    /\ recovered(sector, _size) = _data

C3_ExactlyOneErase ==
    (/\ lastOp = "commit" /\ recent # << >>
     /\ Len(recent) = nSlots(_size, _bitmapSize) + 1)
        => erasesOf(recent) = 1

\* C3 amended: N + 1 successive commits, each after a write that changed the
\* buffer, with no flash failure, erase the sector once when the first of
\* them finds a current slot with room for another behind it, and twice
\* otherwise (no current slot, or the current slot is the last); after the
\* last of them a restart recovers the buffer of the last write.
C3_SlotLogExhaustion ==
    (/\ lastOp = "commit" /\ recent # << >>
     /\ Len(recent) = nSlots(_size, _bitmapSize) + 1) =>
        /\ erasesOf(recent) =
              IF recent[1].before # 0
                 /\ recent[1].before + _size + _size <= SPI_FLASH_SEC_SIZE
              THEN 1 ELSE 2
        /\ recovered(sector, _size) = _data

\* N + 1 such commits have run on a sector of more than one slot and erased
\* it once.
C3_Witness ==
    /\ lastOp = "commit" /\ recent # << >>
    /\ Len(recent) = nSlots(_size, _bitmapSize) + 1
    /\ nSlots(_size, _bitmapSize) > 1
    /\ erasesOf(recent) = 1

\* C4: a commit() right after a commit() that returned true makes no call on
\* the flash, leaves _offset and the sector as they were and returns true.
C4_CommitIdempotent ==
    [][(lastOp = "commit" /\ returned = "true" /\ lastOp' = "commit")
         => /\ calls' = << >>
            /\ returned' = "true"
            /\ _offset' = _offset
            /\ sector' = sector]_vars

\* The second of two commits in a row has run, the first having returned
\* true.
C4_Witness == again /\ lastOp = "commit" /\ _offset # 0

\* The number of bits of the bitmap bm (m bytes) above bit 0 that differ
\* from bit 0.
flipped(bm, m) ==
    Cardinality({p \in 1 .. 8 * m - 1 :
                    Bit(At(bm, p \div 8), p % 8) # Bit(At(bm, 0), 0)})

\* C5: when begin() finds its (aligned, clamped) size in the header and a
\* bitmap with bits 1..k flipped away from the erased value and every higher
\* bit erased, 1 <= k <= N, it sets _offset to 4 + M + (k - 1) * S, loads
\* the S bytes of that slot into the buffer and leaves the store clean.
C5_ScanCorrect ==
    LET bm == FlashRead(sector, 4, _bitmapSize)
        k == flipped(bm, _bitmapSize)
    IN  (/\ lastOp = "begin" /\ calls # << >>
         /\ FlashRead(sector, 0, 4) = WordBytes(_size)
         /\ k >= 1 /\ k <= nSlots(_size, _bitmapSize)
         /\ bm = bitmapWith(erased, _bitmapSize, k))
        => /\ _offset = 4 + _bitmapSize + (k - 1) * _size
           /\ _data = FlashRead(sector, _offset, _size)
           /\ ~_dirty

\* begin() has found the last slot of a sector of more than one slot,
\* flagged in a byte of the bitmap other than the first, over flash that
\* erases to zeroes.
C5_Witness ==
    /\ lastOp = "begin" /\ erased = 0
    /\ flipped(FlashRead(sector, 4, _bitmapSize), _bitmapSize)
          = nSlots(_size, _bitmapSize)
    /\ nSlots(_size, _bitmapSize) > 8
    /\ _offset = 4 + _bitmapSize + (nSlots(_size, _bitmapSize) - 1) * _size
    /\ ~_dirty

\* C6: when begin() accepts its size and the header of the sector differs
\* from the aligned, clamped size, or the header matches and bit 1 of the
\* bitmap equals bit 0, begin() makes no call on the flash but reads, ends
\* with _offset = 0 and _dirty set, percentUsed() is -1 and the next commit()
\* erases the sector.
C6_StaleMediaDetected ==
    (/\ lastOp = "begin" /\ calls # << >>
     /\ \/ FlashRead(sector, 0, 4) # WordBytes(_size)
        \/ Bit(At(sector, 4), 1) = Bit(At(sector, 4), 0))
    => /\ \A i \in 1 .. Len(calls) :
              calls[i][1] \in {"noInterrupts", "read", "interrupts"}
       /\ _offset = 0
       /\ _dirty
       /\ percentUsed(This) = -1
       /\ Head(commit(This, {}, erased).trace) = <<"noInterrupts", TRUE>>
       /\ commit(This, {}, erased).trace[2] = <<"erase", TRUE>>

\* begin() has run over a sector whose header matches and whose bitmap
\* flags no slot.
C6_Witness ==
    /\ lastOp = "begin" /\ calls # << >>
    /\ FlashRead(sector, 0, 4) = WordBytes(_size)
    /\ Bit(At(sector, 4), 1) = Bit(At(sector, 4), 0)
    /\ _offset = 0 /\ _dirty

\* C7 as stated, for the sizes whose bitmap has more bits than the sector
\* has slots: when begin() finds its size in the header and every bit of the
\* bitmap from bit 1 on flipped away from the erased value, it ends with
\* _offset = 0 and _dirty set.
C7_ExhaustedScanRejected ==
    (/\ lastOp = "begin" /\ calls # << >>
     /\ FlashRead(sector, 0, 4) = WordBytes(_size)
     /\ flipped(FlashRead(sector, 4, _bitmapSize), _bitmapSize)
           = 8 * _bitmapSize - 1
     /\ 8 * _bitmapSize - 1 > nSlots(_size, _bitmapSize))
    => (_offset = 0 /\ _dirty)

\* C8 as stated: when commit() has written the data slot and the write of
\* the bitmap chunk fails, commit() returns false and the scan of a restart
\* selects the slot just written.
C8_NewSlotSelected ==
    [][(lastOp' = "commit" /\ bitmapWriteFailed(calls'))
         => /\ returned' = "false"
            /\ restarted(sector', _size).offset = _offset']_vars

\* C8 amended: when commit() has written the data slot and the write of the
\* bitmap chunk fails, commit() returns false; the scan of a restart selects
\* the slot it selected before that commit() when the commit found a
\* current slot with room for another behind it (the append branch), and no
\* slot otherwise (the erase-and-restart branch).
C8_NewSlotNotSelected ==
    [][(lastOp' = "commit" /\ bitmapWriteFailed(calls'))
         => /\ returned' = "false"
            /\ restarted(sector', _size).offset =
                  IF _offset # 0 /\ _offset + _size + _size <= SPI_FLASH_SEC_SIZE
                  THEN restarted(sector, _size).offset
                  ELSE 0]_vars

\* A commit has appended a slot behind the one a restart selects and failed
\* to write the bitmap chunk.
C8_Witness ==
    /\ lastOp = "commit" /\ bitmapWriteFailed(calls)
    /\ ~made(calls, <<"erase", TRUE>>)
    /\ restarted(sector, _size).offset # 0
    /\ restarted(sector, _size).offset + _size = _offset

\* C9 as stated: begin(size) with size <= 0 or size > B - 8 leaves _size,
\* _bitmapSize, _offset, _dirty, the buffer and the sector as they were.
C9_RejectedBeginChangesNothing ==
    [][(/\ lastOp' = "begin"
        /\ (arg'[1] <= 0 \/ arg'[1] > SPI_FLASH_SEC_SIZE - 8))
         => UNCHANGED << _size, _bitmapSize, _offset, _dirty, _data, sector >>]_vars

\* C10 as stated: a public operation in which a flash erase, read or write
\* failed returns false.
C10_EveryFailureReported ==
    failedIn(calls) > 0 => returned = "false"

\* A bitmap of m bytes has a bit for each of the slots that fit behind it and
\* the reference bit.
fits(size, m) == (SPI_FLASH_SEC_SIZE - 4 - m) \div size + 1 <= 8 * m

\* C11: for every valid slot size S, computeBitmapSize(S) is a multiple of 4
\* with floor((B - 4 - M) / S) + 1 <= 8 * M, no smaller multiple of 4 has
\* that property (the result of growing M by 4 from 0 until it holds), and
\* at least one slot fits.
C11_BitmapSizing ==
    (lastOp = "begin" /\ calls # << >>) =>
        /\ _bitmapSize = computeBitmapSize(_size)
        /\ _bitmapSize % 4 = 0
        /\ fits(_size, _bitmapSize)
        /\ \A m \in 0 .. _bitmapSize - 1 : m % 4 = 0 => ~fits(_size, m)
        /\ nSlots(_size, _bitmapSize) >= 1

\* begin() has laid out a sector whose number of slots is a multiple of 32,
\* so that the reference bit takes the bitmap into another 4 bytes.
C11_Witness ==
    /\ lastOp = "begin" /\ calls # << >>
    /\ nSlots(_size, _bitmapSize) = 32
    /\ _bitmapSize = 8

\* The interrupt state along the SDK calls tr from call i on, interrupts
\* being suspended or not and ops flash operations made in the suspension so
\* far: every flash operation is made with interrupts suspended, every
\* suspension ends after exactly one flash operation, and interrupts are
\* enabled at the end.
RECURSIVE bracketedFrom(_, _, _, _)
bracketedFrom(tr, i, suspended, ops) ==
    IF i > Len(tr) THEN ~suspended
    ELSE IF tr[i][1] = "noInterrupts"
    THEN ~suspended /\ bracketedFrom(tr, i + 1, TRUE, 0)
    ELSE IF tr[i][1] = "interrupts"
    THEN (suspended => ops = 1) /\ bracketedFrom(tr, i + 1, FALSE, 0)
    ELSE suspended /\ ops = 0 /\ bracketedFrom(tr, i + 1, TRUE, ops + 1)

\* C12: in begin, commit, commitReset, wipe and end every flash erase, read
\* and write is made while interrupts are suspended, every suspension
\* covers exactly one flash operation, and interrupts are enabled when the
\* operation returns, on the failure returns too.
C12_InterruptBracketing == bracketedFrom(calls, 1, FALSE, 0)

\* A commit that returned false on a failed flash operation after others
\* had succeeded.
C12_Witness ==
    /\ lastOp = "commit" /\ returned = "false"
    /\ Len(calls) >= 6
    /\ calls[Len(calls) - 1][2] = FALSE

\* A configured store as a successful wipe() leaves it: no current slot,
\* dirty, over a sector that is erased from its first byte to its last.
wiped ==
    /\ _size # 0 /\ _bitmapSize # 0 /\ _data # NULL /\ _bitmap # NULL
    /\ _offset = 0 /\ _dirty
    /\ sector = EraseSector(erased)

\* The sector after the first commit of a buffer on an erased sector: the
\* size header, bit 1 of the bitmap flipped, the buffer in the first slot.
firstCommit(e, size, m, data) ==
    LET hdr == WordBytes(size)
        bm == bitmapWith(e, m, 1)
    IN  [a \in 1 .. SPI_FLASH_SEC_SIZE |->
            LET i == a - 1
            IN  IF i < 4 THEN At(hdr, i)
                ELSE IF i < 4 + m THEN At(bm, i - 4)
                ELSE IF i < 4 + m + size THEN At(data, i - 4 - m)
                ELSE e]

\* C13: a wipe() that returns true leaves the store with offset 0, dirty,
\* percentUsed() = -1, over a sector that holds neither size header nor
\* bitmap, in which a restart finds no valid slot; writes to the buffer
\* keep that state; and the next commit() starts with the sector erase and,
\* no flash operation failing, leaves the header, the first slot and the
\* bitmap on the sector.
C13_WipeErasesNow ==
    [][/\ (lastOp = "wipe" /\ returned = "true") =>
              /\ wiped
              /\ percentUsed(This) = -1
              /\ restarted(sector, _size).offset = 0
              /\ recovered(sector, _size) = NULL
       /\ (wiped /\ lastOp' = "write") => wiped'
       /\ (wiped /\ lastOp' = "commit") =>
              /\ Len(calls') >= 3
              /\ calls'[2][1] = "erase"
              /\ failedIn(calls') = 0 =>
                     /\ returned' = "true"
                     /\ _offset' = 4 + _bitmapSize
                     /\ sector' = firstCommit(erased, _size, _bitmapSize, _data)
      ]_vars

\* wipe() has erased the sector and returned true.
C13_Witness ==
    /\ lastOp = "wipe" /\ returned = "true"
    /\ calls = Io("erase", TRUE)
    /\ wiped

\* The store has been configured by begin(): commit() and commitReset() do
\* not return at their first test.
configured == _size # 0 /\ _bitmapSize # 0 /\ _data # NULL /\ _bitmap # NULL

\* C14: commitReset() on a configured store, clean or dirty, with free slots
\* or without, erases the sector before it writes; when it returns true the
\* buffer is unchanged, _offset = 4 + M (slot 0), exactly one bit of the
\* bitmap on flash (bit 1) is flipped, and a restart recovers the buffer.
C14_CommitResetNewEpoch ==
    [][(configured /\ lastOp' = "commitReset") =>
           /\ Len(calls') >= 3
           /\ calls'[2][1] = "erase"
           /\ returned' = "true" =>
                  LET bm == FlashRead(sector', 4, _bitmapSize)
                  IN  /\ _data' = _data
                      /\ _offset' = 4 + _bitmapSize
                      /\ flipped(bm, _bitmapSize) = 1
                      /\ Bit(At(bm, 0), 1) # Bit(At(bm, 0), 0)
                      /\ recovered(sector', _size) = _data
      ]_vars

\* C15: after a begin() that found a wrong size header or a broken bitmap
\* (it read the sector and ended with no current slot), and after wipe(),
\* read(a) returns 0 for every address a of the buffer as long as the
\* caller has not written to it.
C15_BufferZeroed ==
    [][(/\ \/ lastOp = "begin" /\ calls # << >> /\ _offset = 0
           \/ lastOp = "wipe" /\ calls # << >>
        /\ lastOp' = "read"
        /\ arg'[1] >= 0 /\ arg'[1] < _size)
       => readValue' = 0]_vars

\* C16: for every address below 0 or at or above _size (every address when
\* the store is not configured, _size being 0), read(address) returns 0 and
\* write(address, v) changes nothing: the buffer, the dirty flag, the
\* offset and the sector are as they were.
C16_OutOfRangeIgnored ==
    [][(/\ lastOp' \in {"read", "write"}
        /\ arg'[1] < 0 \/ arg'[1] >= _size)
       => /\ lastOp' = "read" => readValue' = 0
          /\ UNCHANGED << _data, _size, _bitmapSize, _bitmap, _offset, _dirty,
                          sector >>]_vars

\* write(_size, v) has been called on a clean configured store.
C16_Witness ==
    /\ lastOp = "write"
    /\ _size # 0 /\ arg[1] = _size
    /\ ~_dirty

\* The step is a write(a, v) or a put(a, v) inside the buffer.
storesInRange ==
    IF lastOp' = "write" THEN arg'[1] >= 0 /\ arg'[1] < _size
    ELSE IF lastOp' = "put"
    THEN _data # NULL /\ arg'[1] >= 0 /\ arg'[1] + Len(arg'[2]) <= _size
    ELSE FALSE

\* The bytes the buffer buf holds where the write or put of the step stores.
heldIn(buf) ==
    IF lastOp' = "write" THEN At(buf, arg'[1])
    ELSE SubSeq(buf, arg'[1] + 1, arg'[1] + Len(arg'[2]))

\* C17: on a clean configured store a write() or put() of the value the
\* buffer already holds at that address leaves the buffer as it is and the
\* store clean, and the commit() that follows makes no flash operation; a
\* write() or put() that changes a byte stores the value and sets dirty, and
\* the commit() that follows writes the buffer to a slot.
C17_NoSpuriousCommits ==
    [][/\ (configured /\ ~_dirty /\ storesInRange) =>
              IF heldIn(_data) = arg'[2]
              THEN ~_dirty' /\ _data' = _data
              ELSE _dirty' /\ heldIn(_data') = arg'[2]
       /\ (configured /\ lastOp \in {"write", "put"} /\ lastOp' = "commit") =>
              IF _dirty
              THEN /\ returned' = "true"
                   /\ made(calls', <<"write", TRUE>>)
                   /\ FlashRead(sector', _offset', _size) = _data
              ELSE /\ returned' = "true"
                   /\ calls' = << >>
                   /\ sector' = sector
      ]_vars

\* put() has stored, on a clean store, the two bytes the buffer held.
C17_Witness ==
    /\ lastOp = "put" /\ configured /\ ~_dirty
    /\ arg[1] = 0
    /\ SubSeq(_data, 1, 2) = arg[2]

\* C18: when the sector erase, the write of the size header or the write of
\* the data slot fails in commit(), commit() returns false with _offset as
\* it was before the call and the store still dirty; and when commitReset()
\* returns false, for whatever reason, _offset is as it was before the call.
C18_OffsetRollback ==
    [][/\ (/\ lastOp' = "commit" /\ returned' = "false"
           /\ calls' # << >>
           /\ ~bitmapWriteFailed(calls'))
          => /\ _offset' = _offset
             /\ _dirty /\ _dirty'
       /\ (lastOp' = "commitReset" /\ returned' = "false")
          => _offset' = _offset
      ]_vars

\* commitReset() has returned false after the erase, on a store whose
\* current slot is not the first.
C18_Witness ==
    /\ lastOp = "commitReset" /\ returned = "false"
    /\ made(calls, <<"erase", TRUE>>)
    /\ _offset > 4 + _bitmapSize
    /\ _offset < SPI_FLASH_SEC_SIZE

\* C19: a commit() of a dirty store erases the sector if and only if
\* _offset = 0 or the current slot is the last (_offset + 2 * _size is past
\* the sector); otherwise it writes the buffer to the next slot, at
\* _offset + _size, without erasing.  A commit that erases writes slot 0, so
\* that between two erases the slots are written in increasing order, the
\* last being slot N - 1.
C19_EraseOnlyWhenExhausted ==
    [][(configured /\ _dirty /\ lastOp' = "commit") =>
           LET full == _offset = 0 \/ _offset + 2 * _size > SPI_FLASH_SEC_SIZE
               slot == (_offset - 4 - _bitmapSize) \div _size
           IN  /\ calls' # << >>
               /\ (calls'[2][1] = "erase") <=> full
               /\ _offset # 0 =>
                      (full <=> slot = nSlots(_size, _bitmapSize) - 1)
               /\ ~full =>
                      /\ ~ \E i \in 1 .. Len(calls') : calls'[i][1] = "erase"
                      /\ calls'[2][1] = "write"
                      /\ returned' = "true" =>
                             /\ _offset' = _offset + _size
                             /\ FlashRead(sector', _offset', _size) = _data
                             /\ FlashRead(sector', _offset, _size)
                                    = FlashRead(sector, _offset, _size)
               /\ (full /\ returned' = "true") =>
                      /\ _offset' = 4 + _bitmapSize
                      /\ FlashRead(sector', _offset', _size) = _data
      ]_vars

\* commit() has appended the buffer to the slot behind the first one.
C19_Witness ==
    /\ lastOp = "commit" /\ returned = "true"
    /\ calls = Io("write", TRUE) \o Io("write", TRUE) \o << <<"interrupts", TRUE>> >>
    /\ _offset = 4 + _bitmapSize + _size

\* C20: whenever commit() or commitReset() returns true, whatever flash
\* erases and writes have failed before, a restart (begin(_size) on a new
\* instance over the same sector) recovers exactly the buffer of that call.
C20_SuccessRecoverable ==
    (lastOp \in {"commit", "commitReset"} /\ returned = "true") =>
        recovered(sector, _size) = _data

\* The bits of the bitmap on the sector that differ from its reference
\* bit 0, the bitmap taken to be m bytes long.
flippedBits(fl, m) ==
    LET bm == FlashRead(fl, 4, m)
    IN  {p \in 1 .. 8 * m - 1 : Bit(At(bm, p \div 8), p % 8) # Bit(At(bm, 0), 0)}

\* C21: whenever the size header on the sector equals the size of the
\* store, the flipped bits of the bitmap on the sector are the bits 1..k for
\* some k, with no hole; and whenever the store is configured and clean,
\* some bit is flipped and _offset is the offset of the slot of the highest
\* flipped bit.
C21_BitmapPrefix ==
    LET on == flippedBits(sector, _bitmapSize)
    IN  /\ (_size # 0 /\ FlashRead(sector, 0, 4) = WordBytes(_size)) =>
               \A p \in on : \A q \in 1 .. p : q \in on
        /\ (configured /\ ~_dirty) =>
               /\ on # {}
               /\ \A p \in on : p <= flagBitNo(This)
               /\ flagBitNo(This) \in on

\* C22: on a configured store, after any public operation, _offset is 0 or
\* the offset of a slot: at least 4 + M, a whole number of slots behind the
\* bitmap, with the slot inside the sector; so that the bit commit() flips
\* for it lies inside the bitmap and the 4-byte chunk written for it lies
\* between the header and the first slot.
C22_OffsetWellFormed ==
    (configured /\ lastOp # "new" /\ _offset # 0) =>
        /\ _offset >= 4 + _bitmapSize
        /\ (_offset - 4 - _bitmapSize) % _size = 0
        /\ _offset + _size <= SPI_FLASH_SEC_SIZE
        /\ flagBitNo(This) >= 1
        /\ flagBitNo(This) < 8 * _bitmapSize
        /\ AlignDown4(flagBitNo(This) \div 8) + 4 <= _bitmapSize
=============================================================================
